---- MODULE Spec2Model ----
(***************************************************************************)
(* Model of smartvadhis2/run.py: launch, _parse_args, _schedule and _run,  *)
(* the record reconciliation and import pipeline.  One action per step of  *)
(* the code; every call to a collaborator (briefcase, smartva, dhis, db,   *)
(* parser) is one step whose result is drawn from the results the          *)
(* collaborator's interface allows.                                        *)
(***************************************************************************)
EXTENDS Integers, Sequences, FiniteSets, TLC

\* ---- bounds ----
MaxRecords == 2      \* rows of a classified file (all files up to this length)
MaxRuns == 2         \* job executions of the scheduler that are followed
MaxSkips == 1        \* due times of the job that pass while a run is executing

\* ---- values ----
None == "None"
NoSid == ""
Sids == {"A123", "B456"}

\* One row of the classified CSV as read_csv yields it.
Row(sid, cause, meta) == [sid |-> sid, cause |-> cause, meta |-> meta]

\* The rows the classified files are built from: clean rows with either sid,
\* a clean row with ignorable bad metadata, a row without sid, a row with an
\* unresolved cause, and a row with every defect at once.
RawRecords == {Row("A123", "known", "ok"),
               Row("B456", "known", "ok"),
               Row("A123", "known", "malformed"),
               Row(NoSid, "known", "ok"),
               Row("B456", "unknown", "ok"),
               Row(NoSid, "unknown", "malformed")}

RECURSIVE SeqsUpTo(_, _)
SeqsUpTo(S, n) == IF n = 0 THEN {<<>>}
                  ELSE LET shorter == SeqsUpTo(S, n - 1)
                       IN shorter \cup {Append(s, x) : s \in {t \in shorter : Len(t) = n - 1}, x \in S}

\* What smartva.run can leave behind: no file, a zero-length file, or a file
\* with a header and 0..MaxRecords rows.
NoFile == [kind |-> "none", rows |-> <<>>]
ZeroLength == [kind |-> "zero-length", rows |-> <<>>]
Csv(rows) == [kind |-> "csv", rows |-> rows]

\* Three-row files that are followed whatever MaxRecords is: a clean row, a
\* row without sid and a clean row; two clean rows and a row with every defect.
ScenarioFiles == {Csv(<<Row("A123", "known", "ok"), Row(NoSid, "known", "ok"), Row("B456", "known", "ok")>>),
                  Csv(<<Row("A123", "known", "ok"), Row("B456", "known", "ok"), Row(NoSid, "unknown", "malformed")>>)}

ClassifiedFiles == {NoFile, ZeroLength}
                   \cup {Csv(rows) : rows \in SeqsUpTo(RawRecords, MaxRecords)}
                   \cup ScenarioFiles

\* What briefcase.download_briefcases can leave behind.
BriefcaseFiles == {"empty", "content"}
briefcase_with_content(f) == f = "content"

\* Command lines: nothing, --manual <existing path>, --manual <missing path>, --all
Argvs == {<<>>, <<"--manual", "exists.csv">>, <<"--manual", "missing.csv">>, <<"--all">>}

\* ---- helpers ----
\* core.helpers.csv_with_content: a file counts as having content only if it
\* exists, is not zero-length and has at least one data row.
csv_with_content(f) == /\ f.kind = "csv"
                       /\ Len(f.rows) > 0

\* core.helpers.read_csv: the data rows of the file, in file order.
read_csv(f) == f.rows

NoVA == [present |-> FALSE, sid |-> NoSid]

\* core.verbalautopsy.verbal_autopsy_factory: (va, exc, warnings) for one row.
verbal_autopsy_factory(record) ==
    LET exc == (IF record.sid = NoSid THEN {"missing sid"} ELSE {})
               \cup (IF record.cause = "unknown" THEN {"unknown cause"} ELSE {})
        warnings == IF record.meta = "malformed" THEN {"malformed metadata"} ELSE {}
    IN [va |-> IF exc = {} THEN [present |-> TRUE, sid |-> record.sid] ELSE NoVA,
        exc |-> exc,
        warnings |-> warnings]

\* ---- scheduler and time ----

\* HOURS = 3: the interval of the job.
HOURS == 3

\* add_job is called without max_instances: the scheduler's default of one
\* running instance per job applies.
max_instances_Two == 1 + 1

max_instances == 1

\* core.helpers.get_timewindow: the window a run asks the download for.
\* Times are hours since launch.  The window ends now and starts where the
\* last requested window ended, less the overlap margin, and never further
\* back than the maximum lookback.
NoTime == -1000
Overlap == 1
MaxLookback == 24
NoWindow == [set |-> FALSE, start |-> NoTime, end |-> NoTime, run |-> 0]
Later(a, b) == IF a >= b THEN a ELSE b
get_timewindow(last, now, run) ==
    [set |-> TRUE,
     start |-> IF last = NoTime THEN now - MaxLookback ELSE Later(last - Overlap, now - MaxLookback),
     end |-> now,
     run |-> run]

\* One entry of the call history.
Call(op, i, sid, result, cond) == [op |-> op, index |-> i, sid |-> sid, result |-> result, cond |-> cond]

\* One run-level log line.
Line(msg, args) == [msg |-> msg, args |-> args]

VARIABLES
    pc,              \* position in launch / _schedule / _run
    argv,            \* the command line
    opts,            \* result of _parse_args: [manual, all]
    manual,          \* _run parameter
    download_all,    \* _run parameter
    briefcase_file,  \* file left by briefcase.download_briefcases
    smartva_file,    \* file left by smartva.run
    success_count, error_count, duplicate_count, no_of_records,
    index,           \* loop index of enumerate(read_csv(smartva_file), 1)
    parsed,          \* (va, exc, warnings) of the current row
    calls,           \* collaborator calls made by the current run, in order
    log,             \* run-level log lines of the current run, in order
    runs,            \* number of runs started
    scheduler,       \* the BlockingScheduler: "off", "running" or "stopped"
    instances,       \* running instances of the job 'smartva-dhis2-runner'
    clock,           \* hours since launch at the last timer event
    next_run_time,   \* next due time of the job
    skipped,         \* due times at which the job was not started
    last_end,        \* persisted end of the last requested time window
    window,          \* the time window requested last
    prev_window,     \* the time window requested before that
    interrupted      \* a KeyboardInterrupt has been raised

vars == <<pc, argv, opts, manual, download_all, briefcase_file, smartva_file,
          success_count, error_count, duplicate_count, no_of_records,
          index, parsed, calls, log, runs,
          scheduler, instances, clock, next_run_time, skipped,
          last_end, window, prev_window, interrupted>>

timer == <<scheduler, instances, clock, next_run_time, skipped>>
cursor == <<last_end, window, prev_window>>

counters == <<success_count, error_count, duplicate_count, no_of_records>>
params == <<manual, download_all>>
files == <<briefcase_file, smartva_file>>

NoOpts == [manual |-> None, all |-> FALSE]
NoParsed == [va |-> NoVA, exc |-> {}, warnings |-> {}]

Init ==
    /\ pc = "launch"
    /\ argv \in Argvs
    /\ opts = NoOpts
    /\ manual = None
    /\ download_all = FALSE
    /\ briefcase_file = None
    /\ smartva_file = NoFile
    /\ success_count = 0
    /\ error_count = 0
    /\ duplicate_count = 0
    /\ no_of_records = 0
    /\ index = 0
    /\ parsed = NoParsed
    /\ calls = <<>>
    /\ log = <<>>
    /\ runs = 0
    /\ scheduler = "off"
    /\ instances = 0
    /\ clock = 0
    /\ next_run_time = NoTime
    /\ skipped = 0
    /\ last_end = NoTime
    /\ window = NoWindow
    /\ prev_window = NoWindow
    /\ interrupted = FALSE

\* ---- launch ----

\* _parse_args: --manual with a path that does not exist raises FileNotFoundError,
\* which launch's "except Exception" logs.
ParseArgs ==
    /\ pc = "launch"
    /\ IF Len(argv) = 2 /\ argv[2] = "missing.csv"
       THEN /\ log' = Append(log, Line("exception: FileNotFoundError", <<>>))
            /\ pc' = "exit"
            /\ opts' = opts
       ELSE /\ opts' = [manual |-> IF Len(argv) = 2 THEN argv[2] ELSE None,
                        all |-> argv = <<"--all">>]
            /\ pc' = "setup"
            /\ log' = log
    /\ UNCHANGED <<argv, timer, cursor, interrupted, params, files, counters, index, parsed, calls, runs>>

\* setup()
Setup ==
    /\ pc = "setup"
    /\ pc' = "dispatch"
    /\ UNCHANGED <<argv, timer, cursor, interrupted, opts, params, files, counters, index, parsed, calls, log, runs>>

\* if not any([opts.manual, opts.all]): _schedule()
\* add_job(_run, 'interval', hours=HOURS, args=[False, False], next_run_time=datetime.now())
StartSchedule ==
    /\ pc = "dispatch"
    /\ ~(opts.manual # None \/ opts.all)
    /\ log' = Append(log, Line("Scheduling started", <<>>))
    /\ scheduler' = "running"
    /\ next_run_time' = clock
    /\ pc' = "scheduler"
    /\ UNCHANGED <<argv, instances, clock, skipped, cursor, interrupted, opts, params, files,
                   counters, index, parsed, calls, runs>>

\* Entry of _run(manual, download_all): locals of a fresh call, access().
EnterRun(m, a) ==
    /\ manual' = m
    /\ download_all' = a
    /\ briefcase_file' = None
    /\ smartva_file' = NoFile
    /\ success_count' = 0
    /\ error_count' = 0
    /\ duplicate_count' = 0
    /\ no_of_records' = 0
    /\ index' = 0
    /\ parsed' = NoParsed
    /\ calls' = <<>>
    /\ runs' = runs + 1
    /\ pc' = "fetch"

\* Variant of JobFire: the job is added with args=[False, True].
JobFire_All ==
    /\ pc = "scheduler"
    /\ scheduler = "running"
    /\ runs < MaxRuns
    /\ instances < max_instances
    /\ clock' = next_run_time
    /\ next_run_time' = next_run_time + HOURS
    /\ instances' = instances + 1
    /\ EnterRun(None, TRUE)
    /\ log' = <<>>
    /\ UNCHANGED <<argv, scheduler, skipped, cursor, interrupted, opts>>

\* The job is due and no instance of it is running: the scheduler starts
\* _run(False, False) and sets the next due time one interval later.
JobFire ==
    /\ pc = "scheduler"
    /\ scheduler = "running"
    /\ runs < MaxRuns
    /\ instances < max_instances
    /\ clock' = next_run_time
    /\ next_run_time' = next_run_time + HOURS
    /\ instances' = instances + 1
    /\ EnterRun(None, FALSE)
    /\ log' = <<>>
    /\ UNCHANGED <<argv, scheduler, skipped, cursor, interrupted, opts>>

\* The job is due while a run is still executing (the run lasts longer than
\* the interval): the scheduler starts another instance only below
\* max_instances, otherwise it skips this due time.
JobMisfire ==
    /\ scheduler = "running"
    /\ pc # "scheduler"
    /\ skipped < MaxSkips
    /\ clock' = next_run_time
    /\ next_run_time' = next_run_time + HOURS
    /\ IF instances < max_instances
       THEN /\ instances' = instances + 1
            /\ skipped' = skipped
       ELSE /\ instances' = instances
            /\ skipped' = skipped + 1
    /\ UNCHANGED <<pc, argv, scheduler, cursor, interrupted, opts, params, files, counters,
                   index, parsed, calls, log, runs>>

\* Variant of RunOnce: _run is called whatever the flags are.
RunOnce_Always ==
    /\ pc = "dispatch"
    /\ EnterRun(opts.manual, opts.all)
    /\ UNCHANGED <<argv, timer, cursor, interrupted, opts, log>>

\* else: _run(manual=opts.manual, download_all=opts.all)
RunOnce ==
    /\ pc = "dispatch"
    /\ (opts.manual # None \/ opts.all)
    /\ EnterRun(opts.manual, opts.all)
    /\ UNCHANGED <<argv, timer, cursor, interrupted, opts, log>>

\* ---- _run: obtaining the classified file (lines 70-80) ----

\* if manual: smartva_file = smartva.run(manual, manual=True)
ClassifyManual ==
    /\ pc = "fetch"
    /\ manual # None
    /\ \/ \E f \in ClassifiedFiles :
            /\ smartva_file' = f
            /\ calls' = Append(calls, Call("smartva.run", 0, NoSid, "ok", {}))
            /\ pc' = "counts"
       \/ /\ calls' = Append(calls, Call("smartva.run", 0, NoSid, "raised", {}))
          /\ pc' = "raised"
          /\ UNCHANGED smartva_file
    /\ UNCHANGED <<argv, timer, cursor, interrupted, opts, params, briefcase_file, counters, index, parsed, log, runs>>

\* briefcase.download_briefcases(download_all): unless everything is pulled,
\* the download asks for the time window, which moves the persisted end.
RequestWindow ==
    IF download_all
    THEN UNCHANGED cursor
    ELSE /\ window' = get_timewindow(last_end, clock, runs)
         /\ prev_window' = window
         /\ last_end' = clock

\* Variant of Download: a failed download is swallowed and the run goes on
\* without a file.
Download_Swallow ==
    /\ pc = "fetch"
    /\ manual = None
    /\ \/ \E b \in BriefcaseFiles :
            /\ briefcase_file' = b
            /\ calls' = Append(calls, Call("download_briefcases", 0, NoSid, "ok", {}))
            /\ pc' = "check_briefcase"
       \/ /\ calls' = Append(calls, Call("download_briefcases", 0, NoSid, "raised", {}))
          /\ pc' = "counts"
          /\ UNCHANGED briefcase_file
    /\ RequestWindow
    /\ UNCHANGED <<argv, timer, interrupted, opts, params, smartva_file, counters, index, parsed, log, runs>>

\* else: briefcase_file = briefcase.download_briefcases(download_all); smartva_file = None
Download ==
    /\ pc = "fetch"
    /\ manual = None
    /\ \/ \E b \in BriefcaseFiles :
            /\ briefcase_file' = b
            /\ calls' = Append(calls, Call("download_briefcases", 0, NoSid, "ok", {}))
            /\ pc' = "check_briefcase"
       \/ /\ calls' = Append(calls, Call("download_briefcases", 0, NoSid, "raised", {}))
          /\ pc' = "raised"
          /\ UNCHANGED briefcase_file
    /\ RequestWindow
    /\ UNCHANGED <<argv, timer, interrupted, opts, params, smartva_file, counters, index, parsed, log, runs>>

\* Variant of ClassifyDownloaded: the classifier runs whatever was downloaded.
ClassifyDownloaded_NoCheck ==
    /\ pc = "check_briefcase"
    /\ \/ \E f \in ClassifiedFiles :
            /\ smartva_file' = f
            /\ calls' = Append(calls, Call("smartva.run", 0, NoSid, "ok", {}))
            /\ pc' = "counts"
       \/ /\ calls' = Append(calls, Call("smartva.run", 0, NoSid, "raised", {}))
          /\ pc' = "raised"
          /\ UNCHANGED smartva_file
    /\ UNCHANGED <<argv, timer, cursor, interrupted, opts, params, briefcase_file, counters, index, parsed, log, runs>>

\* if csv_with_content(briefcase_file): smartva_file = smartva.run(briefcase_file)
ClassifyDownloaded ==
    /\ pc = "check_briefcase"
    /\ briefcase_with_content(briefcase_file)
    /\ \/ \E f \in ClassifiedFiles :
            /\ smartva_file' = f
            /\ calls' = Append(calls, Call("smartva.run", 0, NoSid, "ok", {}))
            /\ pc' = "counts"
       \/ /\ calls' = Append(calls, Call("smartva.run", 0, NoSid, "raised", {}))
          /\ pc' = "raised"
          /\ UNCHANGED smartva_file
    /\ UNCHANGED <<argv, timer, cursor, interrupted, opts, params, briefcase_file, counters, index, parsed, log, runs>>

\* else: os.remove(briefcase_file)
RemoveBriefcase ==
    /\ pc = "check_briefcase"
    /\ ~briefcase_with_content(briefcase_file)
    /\ briefcase_file' = "removed"
    /\ pc' = "counts"
    /\ UNCHANGED <<argv, timer, cursor, interrupted, opts, params, smartva_file, counters, index, parsed, calls, log, runs>>

\* ---- _run: the record loop (lines 82-127) ----

\* Variant of CountRecords: the content test is missing.
CountRecords_NoGuard ==
    /\ pc = "counts"
    /\ no_of_records' = Len(read_csv(smartva_file))
    /\ pc' = "loop"
    /\ UNCHANGED <<argv, timer, cursor, interrupted, opts, params, files, success_count, error_count, duplicate_count,
                   index, parsed, calls, log, runs>>

\* if csv_with_content(smartva_file): no_of_records = sum(1 for _ in read_csv(smartva_file))
CountRecords ==
    /\ pc = "counts"
    /\ csv_with_content(smartva_file)
    /\ no_of_records' = Len(read_csv(smartva_file))
    /\ pc' = "loop"
    /\ UNCHANGED <<argv, timer, cursor, interrupted, opts, params, files, success_count, error_count, duplicate_count,
                   index, parsed, calls, log, runs>>

\* else: logger.warning("No new ODK records to process for time window {} - {}".format(*get_timewindow()))
NoNewRecords ==
    /\ pc = "counts"
    /\ ~csv_with_content(smartva_file)
    /\ calls' = Append(calls, Call("get_timewindow", 0, NoSid, "ok", {}))
    /\ log' = Append(log, Line("No new ODK records to process", <<>>))
    /\ pc' = "returned"
    /\ UNCHANGED <<argv, timer, cursor, interrupted, opts, params, files, counters, index, parsed, runs>>

\* The row the loop is at.
record == read_csv(smartva_file)[index]

\* Variant of NextRecord: the rows are taken from the end of the file.
NextRecord_Reversed ==
    /\ pc = "loop"
    /\ index < Len(read_csv(smartva_file))
    /\ index' = index + 1
    /\ parsed' = verbal_autopsy_factory(read_csv(smartva_file)[Len(read_csv(smartva_file)) - index])
    /\ calls' = Append(calls, Call("verbal_autopsy_factory", Len(read_csv(smartva_file)) - index,
                                   read_csv(smartva_file)[Len(read_csv(smartva_file)) - index].sid, "ok", {}))
    /\ pc' = "branch"
    /\ UNCHANGED <<argv, timer, cursor, interrupted, opts, params, files, counters, log, runs>>

\* for index, record in enumerate(read_csv(smartva_file), 1):
\*     va, exc, warnings = verbal_autopsy_factory(record)
NextRecord ==
    /\ pc = "loop"
    /\ index < Len(read_csv(smartva_file))
    /\ index' = index + 1
    /\ parsed' = verbal_autopsy_factory(read_csv(smartva_file)[index + 1])
    /\ calls' = Append(calls, Call("verbal_autopsy_factory", index + 1,
                                   read_csv(smartva_file)[index + 1].sid, "ok", {}))
    /\ pc' = "branch"
    /\ UNCHANGED <<argv, timer, cursor, interrupted, opts, params, files, counters, log, runs>>

\* Variant of OnParseErrors: the errors are counted but not written.
OnParseErrors_NoWrite ==
    /\ calls' = calls
    /\ error_count' = error_count + 1
    /\ pc' = "loop"
    /\ UNCHANGED <<success_count, duplicate_count>>

\* if exc: db.write_errors(record, exc); error_count += 1
OnParseErrors ==
    /\ calls' = Append(calls, Call("write_errors", index, record.sid, "ok", parsed.exc))
    /\ error_count' = error_count + 1
    /\ pc' = "loop"
    /\ UNCHANGED <<success_count, duplicate_count>>

\* Variant of WriteParseErrors: warnings are treated like fatal errors.
WriteParseErrors_OnWarnings ==
    /\ pc = "branch"
    /\ (parsed.exc # {} \/ parsed.warnings # {})
    /\ OnParseErrors
    /\ UNCHANGED <<argv, timer, cursor, interrupted, opts, params, files, no_of_records, index, parsed, log, runs>>

WriteParseErrors ==
    /\ pc = "branch"
    /\ parsed.exc # {}
    /\ OnParseErrors
    /\ UNCHANGED <<argv, timer, cursor, interrupted, opts, params, files, no_of_records, index, parsed, log, runs>>

\* Variant of OnDuplicate: the handler falls through to the submission.
OnDuplicate_ThenPost ==
    /\ calls' = calls \o <<Call("is_duplicate", index, parsed.va.sid, "duplicate", {}),
                          Call("write_errors", index, record.sid, "ok", {"DuplicateEventImportError"})>>
    /\ duplicate_count' = duplicate_count + 1
    /\ pc' = "post"
    /\ UNCHANGED <<success_count, error_count>>

\* Variant of OnDuplicate: the duplicate is counted in the error bucket.
OnDuplicate_CountsError ==
    /\ calls' = calls \o <<Call("is_duplicate", index, parsed.va.sid, "duplicate", {}),
                          Call("write_errors", index, record.sid, "ok", {"DuplicateEventImportError"})>>
    /\ error_count' = error_count + 1
    /\ pc' = "loop"
    /\ UNCHANGED <<success_count, duplicate_count>>

\* except DuplicateEventImportError as e: db.write_errors(record, e); duplicate_count += 1
OnDuplicate ==
    /\ calls' = calls \o <<Call("is_duplicate", index, parsed.va.sid, "duplicate", {}),
                          Call("write_errors", index, record.sid, "ok", {"DuplicateEventImportError"})>>
    /\ duplicate_count' = duplicate_count + 1
    /\ pc' = "loop"
    /\ UNCHANGED <<success_count, error_count>>

\* is_duplicate returned: the else branch of the outer try goes on to post_event
OnNotDuplicate ==
    /\ calls' = Append(calls, Call("is_duplicate", index, parsed.va.sid, "ok", {}))
    /\ pc' = "post"
    /\ UNCHANGED <<success_count, error_count, duplicate_count>>

\* is_duplicate raised something that is not a DuplicateEventImportError: no
\* handler in _run, the exception leaves _run.
OnQueryFailed ==
    /\ calls' = Append(calls, Call("is_duplicate", index, parsed.va.sid, "failed", {}))
    /\ pc' = "raised"
    /\ UNCHANGED <<success_count, error_count, duplicate_count>>

\* Variant of IsDuplicate: the duplicate check is not under the else of "if exc".
IsDuplicate_NoElse ==
    /\ pc = "branch"
    /\ \/ OnNotDuplicate
       \/ OnDuplicate
       \/ OnQueryFailed
    /\ UNCHANGED <<argv, timer, cursor, interrupted, opts, params, files, no_of_records, index, parsed, log, runs>>

\* else: event = Event(va); try: dhis.is_duplicate(va.sid)
IsDuplicate ==
    /\ pc = "branch"
    /\ parsed.exc = {}
    /\ \/ OnNotDuplicate
       \/ OnDuplicate
       \/ OnQueryFailed
    /\ UNCHANGED <<argv, timer, cursor, interrupted, opts, params, files, no_of_records, index, parsed, log, runs>>

\* Variant of OnImportException: the rejection is written but not counted.
OnImportException_NoCount ==
    /\ calls' = calls \o <<Call("post_event", index, parsed.va.sid, "rejected", {}),
                          Call("write_errors", index, record.sid, "ok", {"ImportException"})>>
    /\ pc' = "loop"
    /\ UNCHANGED <<success_count, error_count, duplicate_count>>

\* Variant of OnImportException: the rejection lands in the duplicate bucket.
OnImportException_CountsDuplicate ==
    /\ calls' = calls \o <<Call("post_event", index, parsed.va.sid, "rejected", {}),
                          Call("write_errors", index, record.sid, "ok", {"ImportException"})>>
    /\ duplicate_count' = duplicate_count + 1
    /\ pc' = "loop"
    /\ UNCHANGED <<success_count, error_count>>

\* Variant of OnImportException: the submission is tried again.
OnImportException_Retry ==
    /\ calls' = Append(calls, Call("post_event", index, parsed.va.sid, "rejected", {}))
    /\ pc' = "post"
    /\ UNCHANGED <<success_count, error_count, duplicate_count>>

\* except ImportException as e: db.write_errors(record, e); error_count += 1
OnImportException ==
    /\ calls' = calls \o <<Call("post_event", index, parsed.va.sid, "rejected", {}),
                          Call("write_errors", index, record.sid, "ok", {"ImportException"})>>
    /\ error_count' = error_count + 1
    /\ pc' = "loop"
    /\ UNCHANGED <<success_count, duplicate_count>>

\* else: logger.info("Import successful!"); success_count += 1
OnImported ==
    /\ calls' = Append(calls, Call("post_event", index, parsed.va.sid, "ok", {}))
    /\ success_count' = success_count + 1
    /\ pc' = "loop"
    /\ UNCHANGED <<error_count, duplicate_count>>

\* try: dhis.post_event(event.payload)
PostEvent ==
    /\ pc = "post"
    /\ \/ OnImported
       \/ OnImportException
    /\ UNCHANGED <<argv, timer, cursor, interrupted, opts, params, files, no_of_records, index, parsed, log, runs>>

\* logger.info("SUMMARY: Parsed ODK records: {} | Imported: {} | Duplicates: {} | Errors: {}")
Summary ==
    /\ pc = "loop"
    /\ index >= Len(read_csv(smartva_file))
    /\ log' = Append(log, Line("SUMMARY", <<no_of_records, success_count, duplicate_count, error_count>>))
    /\ pc' = "returned"
    /\ UNCHANGED <<argv, timer, cursor, interrupted, opts, params, files, counters, index, parsed, calls, runs>>

\* ---- back in the caller ----

Scheduled == opts.manual = None /\ ~opts.all

\* _run returned: to launch (which ends) or to the scheduler (which waits for
\* the next interval).
RunReturned ==
    /\ pc = "returned"
    /\ pc' = IF Scheduled /\ scheduler = "running" THEN "scheduler" ELSE "exit"
    /\ instances' = IF Scheduled THEN instances - 1 ELSE instances
    /\ UNCHANGED <<argv, scheduler, clock, next_run_time, skipped, cursor, interrupted, opts, params,
                   files, counters, index, parsed, calls, log, runs>>

\* _run raised: launch's "except Exception: logger.exception(e)"; under the
\* scheduler the executor logs the job's exception and the scheduler goes on.
RunRaised ==
    /\ pc = "raised"
    /\ log' = Append(log, Line("exception", <<>>))
    /\ pc' = IF Scheduled /\ scheduler = "running" THEN "scheduler" ELSE "exit"
    /\ instances' = IF Scheduled THEN instances - 1 ELSE instances
    /\ UNCHANGED <<argv, scheduler, clock, next_run_time, skipped, cursor, interrupted, opts, params,
                   files, counters, index, parsed, calls, runs>>

\* ---- interrupts ----

\* Variant of Interrupt: the interrupt is logged but the run goes on.
Interrupt_Swallowed ==
    /\ scheduler = "off"
    /\ ~interrupted
    /\ pc \notin {"exit", "aborted"}
    /\ interrupted' = TRUE
    /\ log' = Append(log, Line("Aborted!", <<>>))
    /\ UNCHANGED <<pc, argv, timer, cursor, opts, params, files, counters, index, parsed, calls, runs>>

\* KeyboardInterrupt while launch is parsing, setting up or inside the direct
\* call of _run: nothing in _run catches it, launch's
\* "except KeyboardInterrupt: logger.warning('Aborted!')" ends launch.
Interrupt ==
    /\ scheduler = "off"
    /\ ~interrupted
    /\ pc \notin {"exit", "aborted"}
    /\ interrupted' = TRUE
    /\ log' = Append(log, Line("Aborted!", <<>>))
    /\ pc' = "aborted"
    /\ UNCHANGED <<argv, timer, cursor, opts, params, files, counters, index, parsed, calls, runs>>

\* KeyboardInterrupt while the scheduler is running: it is raised in the main
\* thread, leaves scheduler.start() and is dropped by
\* "except (KeyboardInterrupt, SystemExit): pass"; launch ends without a log
\* line.  A job instance executing in the scheduler's worker thread at that
\* moment either stops with the process or runs to its end first.
InterruptScheduler ==
    /\ scheduler = "running"
    /\ ~interrupted
    /\ interrupted' = TRUE
    /\ scheduler' = "stopped"
    /\ IF pc = "scheduler"
       THEN /\ pc' = "exit"
            /\ instances' = instances
       ELSE \/ /\ pc' = "aborted"
               /\ instances' = 0
            \/ UNCHANGED <<pc, instances>>
    /\ UNCHANGED <<argv, clock, next_run_time, skipped, cursor, opts, params, files, counters,
                   index, parsed, calls, log, runs>>

Next ==
    \/ ParseArgs
    \/ Setup
    \/ StartSchedule
    \/ JobFire
    \/ JobMisfire
    \/ RunOnce
    \/ ClassifyManual
    \/ Download
    \/ ClassifyDownloaded
    \/ RemoveBriefcase
    \/ CountRecords
    \/ NoNewRecords
    \/ NextRecord
    \/ WriteParseErrors
    \/ IsDuplicate
    \/ PostEvent
    \/ Summary
    \/ RunReturned
    \/ RunRaised
    \/ Interrupt
    \/ InterruptScheduler

Spec == Init /\ [][Next]_vars

\* ---- reading the call history ----

\* Positions in the history of the calls of operation op made for row i.
CallsOf(op, i) == {k \in 1..Len(calls) : calls[k].op = op /\ calls[k].index = i}

\* Positions of the calls of op that ended with the given result.
CallsWith(op, result) == {k \in 1..Len(calls) : calls[k].op = op /\ calls[k].result = result}

\* Entries of the failure store written by this run.
Writes == {k \in 1..Len(calls) : calls[k].op = "write_errors"}

Rows == 1..Len(read_csv(smartva_file))

\* Rows whose processing is over: the loop has left them behind, or the run
\* ended while at them.  (After an interrupt, pc = "aborted", only the rows
\* the loop has left behind are known to be over.)
Finished == {i \in Rows : i < index \/ (i = index /\ pc \in {"loop", "returned", "raised", "exit", "scheduler"})}

SummaryOf(n, s, d, e) == Line("SUMMARY", <<n, s, d, e>>)
SummaryEmitted == pc = "returned" /\ Len(log) > 0 /\ log[Len(log)].msg = "SUMMARY"

\* ---- claims ----

\* C1: a record whose duplicate check reports 'duplicate' is never submitted
\* (no post_event call for it); it is written to the failure store with the
\* duplicate condition and counted in duplicate_count.
C1_DuplicateNeverPosted ==
    /\ \A k \in CallsWith("is_duplicate", "duplicate") :
          /\ CallsOf("post_event", calls[k].index) = {}
          /\ \E w \in CallsOf("write_errors", calls[k].index) :
                calls[w].cond = {"DuplicateEventImportError"}
    /\ duplicate_count = Cardinality(CallsWith("is_duplicate", "duplicate"))

C1_Witness ==
    /\ pc = "returned"
    /\ duplicate_count >= 1
    /\ success_count >= 1
    /\ CallsWith("is_duplicate", "duplicate") # {}

\* C2: when the summary is emitted, success + duplicate + error equals the
\* number of parsed records, which is the number of rows of the file.
C2_SumInvariant ==
    SummaryEmitted =>
        /\ success_count + duplicate_count + error_count = no_of_records
        /\ no_of_records = Len(read_csv(smartva_file))
        /\ log[Len(log)] = SummaryOf(no_of_records, success_count, duplicate_count, error_count)

C2_Witness ==
    /\ SummaryEmitted
    /\ success_count >= 1
    /\ duplicate_count >= 1
    /\ error_count >= 1

\* C3: a duplicate check that fails to answer is recorded as an Error for
\* that record (failure-store write) and the run continues.
C3_QueryFailedRecorded ==
    \A k \in CallsWith("is_duplicate", "failed") :
        /\ CallsOf("write_errors", calls[k].index) # {}
        /\ pc # "raised"

\* C4: a per-record condition never aborts the run: once the record loop has
\* started, _run does not end by raising.
C4_NoAbortInLoop ==
    pc = "raised" => index = 0

\* C5: a rejected submission is an Error: one failure-store write with the
\* ImportException, error_count counts it, success_count does not, and
\* post_event is called at most once per record.
C5_RejectionIsError ==
    /\ \A i \in Rows : Cardinality(CallsOf("post_event", i)) <= 1
    /\ \A k \in CallsWith("post_event", "rejected") :
          /\ Cardinality(CallsOf("write_errors", calls[k].index)) = 1
          /\ \A w \in CallsOf("write_errors", calls[k].index) : calls[w].cond = {"ImportException"}
    /\ error_count = Cardinality({w \in Writes : calls[w].cond # {"DuplicateEventImportError"}})
    /\ success_count = Cardinality(CallsWith("post_event", "ok"))

C5_Witness ==
    /\ pc = "returned"
    /\ CallsWith("post_event", "rejected") # {}
    /\ CallsWith("post_event", "ok") # {}
    /\ \E k \in CallsWith("post_event", "rejected") : calls[k].index < index

\* C6: a record with at least one fatal parse error is never passed to
\* is_duplicate or post_event; handling it adds one to error_count, writes
\* the record with all its errors in one failure-store write, and goes on
\* with the loop.
\* A step of _run itself, not the arrival of an interrupt or of a due time.
RunStep == interrupted' = interrupted /\ next_run_time' = next_run_time

C6_FatalState ==
    \A i \in Rows :
        (i <= index /\ verbal_autopsy_factory(read_csv(smartva_file)[i]).exc # {}) =>
            /\ CallsOf("is_duplicate", i) = {}
            /\ CallsOf("post_event", i) = {}
            /\ i \in Finished =>
                  /\ Cardinality(CallsOf("write_errors", i)) = 1
                  /\ \A w \in CallsOf("write_errors", i) :
                        calls[w].cond = verbal_autopsy_factory(read_csv(smartva_file)[i]).exc

C6_FatalStep ==
    (pc = "branch" /\ parsed.exc # {} /\ RunStep) =>
        /\ error_count' = error_count + 1
        /\ success_count' = success_count
        /\ duplicate_count' = duplicate_count
        /\ Len(calls') = Len(calls) + 1
        /\ pc' = "loop"

C6_FatalParseError == [](C6_FatalState) /\ [][C6_FatalStep]_vars

C6_Witness ==
    /\ pc = "returned"
    /\ \E i \in Rows : /\ i < Len(read_csv(smartva_file))
                       /\ Cardinality(verbal_autopsy_factory(read_csv(smartva_file)[i]).exc) = 2
                       /\ CallsOf("write_errors", i) # {}
    /\ success_count >= 1

\* Outcome of a finished row, read off the call history.
IsSuccess(i) == \E k \in CallsOf("post_event", i) : calls[k].result = "ok"
IsDuplicateOutcome(i) == \E k \in CallsOf("is_duplicate", i) : calls[k].result = "duplicate"
IsError(i) == \/ \E k \in CallsOf("post_event", i) : calls[k].result = "rejected"
              \/ (CallsOf("is_duplicate", i) = {} /\ CallsOf("write_errors", i) # {})
OutcomesOf(i) == (IF IsSuccess(i) THEN {"Success"} ELSE {})
                 \cup (IF IsDuplicateOutcome(i) THEN {"Duplicate"} ELSE {})
                 \cup (IF IsError(i) THEN {"Error"} ELSE {})

\* C7: every processed record has exactly one outcome, the failure store
\* holds one entry per Duplicate or Error outcome (number of write_errors
\* calls = duplicate_count + error_count), and a Success causes no write.
C7_OneOutcomePersisted ==
    pc # "aborted" =>
        /\ \A i \in Finished : Cardinality(OutcomesOf(i)) = 1
        /\ success_count + duplicate_count + error_count = Cardinality(Finished)
        /\ Cardinality(Writes) = duplicate_count + error_count
        /\ \A i \in Rows : IsSuccess(i) => CallsOf("write_errors", i) = {}
        /\ \A i \in Finished : ~IsSuccess(i) => Cardinality(CallsOf("write_errors", i)) = 1

RecordCalls == {k \in 1..Len(calls) :
                   calls[k].op \in {"verbal_autopsy_factory", "is_duplicate", "post_event", "write_errors"}}

\* C8: with an empty classified input (no file, zero-length, or header only)
\* no record is processed: no parser, is_duplicate, post_event or write_errors
\* call, all counts zero, and the run ends by logging 'no new records'
\* without raising.
C8_EmptyInputSkipped ==
    (~csv_with_content(smartva_file) /\ pc \in {"counts", "loop", "branch", "post", "returned"}) =>
        /\ RecordCalls = {}
        /\ success_count = 0 /\ duplicate_count = 0 /\ error_count = 0 /\ no_of_records = 0
        /\ pc \in {"counts", "returned"}
        /\ pc = "returned" => log[Len(log)] = Line("No new ODK records to process", <<>>)

C8_Witness ==
    /\ pc = "returned"
    /\ smartva_file = Csv(<<>>)
    /\ log[Len(log)].msg = "No new ODK records to process"

\* C9: when the registry already holds every record of the input (the
\* duplicate check of every row reports 'duplicate'), the run ends with
\* success = 0, duplicate = parsed, error = 0 and without any post_event call.
C9_ReimportIdempotent ==
    (/\ pc = "returned"
     /\ csv_with_content(smartva_file)
     /\ \A i \in Rows : IsDuplicateOutcome(i)) =>
        /\ success_count = 0
        /\ duplicate_count = no_of_records
        /\ duplicate_count = Len(read_csv(smartva_file))
        /\ error_count = 0
        /\ \A k \in 1..Len(calls) : calls[k].op # "post_event"
        /\ log[Len(log)] = SummaryOf(no_of_records, 0, no_of_records, 0)

C9_Witness ==
    /\ pc = "returned"
    /\ Len(read_csv(smartva_file)) = MaxRecords
    /\ \A i \in Rows : IsDuplicateOutcome(i)

\* The three-row scenario: row 1 clean and imported, row 2 without sid,
\* row 3 clean and reported as duplicate by the registry.
Scenario3 ==
    /\ Len(read_csv(smartva_file)) = 3
    /\ verbal_autopsy_factory(read_csv(smartva_file)[1]).exc = {}
    /\ read_csv(smartva_file)[2].sid = NoSid
    /\ verbal_autopsy_factory(read_csv(smartva_file)[3]).exc = {}
    /\ pc = "returned"
    /\ IsSuccess(1)
    /\ IsDuplicateOutcome(3)

\* C10: in the three-row scenario (row 1 clean, not in the registry and
\* accepted; row 2 missing sid; row 3 clean and already in the registry) the
\* run ends with parsed=3, success=1, duplicate=1, error=1 and exactly two
\* failure-store entries: row 2 with its parse errors, row 3 with the
\* duplicate condition.
C10_ThreeRowScenario ==
    Scenario3 =>
        /\ <<no_of_records, success_count, duplicate_count, error_count>> = <<3, 1, 1, 1>>
        /\ log[Len(log)] = SummaryOf(3, 1, 1, 1)
        /\ Cardinality(Writes) = 2
        /\ \E w2, w3 \in Writes :
              /\ w2 < w3
              /\ calls[w2].index = 2
              /\ calls[w2].cond = verbal_autopsy_factory(read_csv(smartva_file)[2]).exc
              /\ "missing sid" \in calls[w2].cond
              /\ calls[w3].index = 3
              /\ calls[w3].cond = {"DuplicateEventImportError"}

C10_Witness ==
    /\ Scenario3
    /\ read_csv(smartva_file)[1].sid = "A123"
    /\ read_csv(smartva_file)[3].sid = "B456"

\* Calls that obtain the raw input and ended by raising.
FetchRaised == CallsWith("download_briefcases", "raised") \cup CallsWith("smartva.run", "raised")

\* C11: when the download or the classification raises, the run ends before
\* any record is processed (no parser, is_duplicate, post_event or
\* write_errors call, all counts zero, no summary) and the failure is logged
\* at run scope by the caller.
C11_FetchFailureAborts ==
    FetchRaised # {} =>
        /\ RecordCalls = {}
        /\ \A k \in FetchRaised : k = Len(calls)
        /\ success_count = 0 /\ duplicate_count = 0 /\ error_count = 0 /\ no_of_records = 0
        /\ index = 0
        /\ pc \in {"raised", "exit", "scheduler", "aborted"}
        /\ pc \in {"exit", "scheduler"} => log = <<Line("exception", <<>>)>>

C11_Witness ==
    /\ pc = "exit"
    /\ CallsWith("smartva.run", "raised") # {}
    /\ CallsWith("download_briefcases", "ok") # {}
    /\ log = <<Line("exception", <<>>)>>

\* Rank of a per-record call inside the processing of its row.
StepRank(op) == CASE op = "verbal_autopsy_factory" -> 1
                  [] op = "is_duplicate" -> 2
                  [] op = "post_event" -> 3
                  [] op = "write_errors" -> 4
                  [] OTHER -> 0

\* C12: the rows are processed one at a time in file order: in the call
\* history every call made for row i comes before every call made for row
\* i+1, the calls of one row come in the order parse, duplicate check,
\* submission, outcome write, and each call carries the sid of its row.
C12_FileOrder ==
    /\ \A j, k \in RecordCalls :
          j < k => \/ calls[j].index < calls[k].index
                   \/ /\ calls[j].index = calls[k].index
                      /\ StepRank(calls[j].op) < StepRank(calls[k].op)
    /\ \A k \in RecordCalls :
          /\ calls[k].index \in 1..index
          /\ calls[k].sid = read_csv(smartva_file)[calls[k].index].sid
    /\ \A i \in 1..index : Cardinality(CallsOf("verbal_autopsy_factory", i)) = 1

C12_Witness ==
    /\ pc = "returned"
    /\ index = 3
    /\ IsSuccess(1)
    /\ IsError(2)
    /\ IsDuplicateOutcome(3)
    /\ read_csv(smartva_file)[1].sid # read_csv(smartva_file)[3].sid

\* The calls a step adds to the history.
NewCalls == {calls'[k] : k \in (Len(calls) + 1)..Len(calls')}

\* A step that ends the processing of the current row with an outcome.
OutcomeStep == pc \in {"branch", "post"} /\ pc' = "loop"

C17_State ==
    /\ pc = "loop" => /\ success_count + duplicate_count + error_count = index
                      /\ index <= no_of_records
    /\ pc \in {"branch", "post"} => /\ success_count + duplicate_count + error_count = index - 1
                                    /\ index <= no_of_records
    /\ SummaryEmitted => /\ log[Len(log)].args[3] = duplicate_count
                         /\ log[Len(log)].args[4] = error_count

C17_Step ==
    OutcomeStep =>
        /\ <<success_count', duplicate_count', error_count'>> \in
              {<<success_count + 1, duplicate_count, error_count>>,
               <<success_count, duplicate_count + 1, error_count>>,
               <<success_count, duplicate_count, error_count + 1>>}
        /\ (\E c \in NewCalls : c.op = "is_duplicate" /\ c.result = "duplicate") =>
              /\ duplicate_count' = duplicate_count + 1
              /\ error_count' = error_count
        /\ (\E c \in NewCalls : c.op = "write_errors" /\ c.cond # {"DuplicateEventImportError"}) =>
              /\ error_count' = error_count + 1
              /\ duplicate_count' = duplicate_count
        /\ (\E c \in NewCalls : c.op = "post_event" /\ c.result = "ok") =>
              /\ success_count' = success_count + 1
              /\ duplicate_count' = duplicate_count
              /\ error_count' = error_count

CleanRows == {i \in Rows : verbal_autopsy_factory(read_csv(smartva_file)[i]).exc = {}}
WarnedRows == {i \in Rows : verbal_autopsy_factory(read_csv(smartva_file)[i]).warnings # {}}

C19_State ==
    /\ \A i \in CleanRows \cap Finished :
          /\ Cardinality(CallsOf("is_duplicate", i)) = 1
          /\ \A w \in CallsOf("write_errors", i) :
                calls[w].cond \in {{"DuplicateEventImportError"}, {"ImportException"}}
    /\ pc # "aborted" =>
          error_count = Cardinality((Finished \ CleanRows)) + Cardinality(CallsWith("post_event", "rejected"))

C19_Step ==
    (pc = "branch" /\ parsed.exc = {} /\ calls' # calls) =>
        /\ Len(calls') > Len(calls)
        /\ calls'[Len(calls) + 1].op = "is_duplicate"
        /\ calls'[Len(calls) + 1].index = index

\* C19: warnings do not change the outcome: a row with warnings and no fatal
\* error goes to the duplicate check like a row without warnings, and
\* warnings alone never add to error_count nor cause a failure-store write.
C19_WarningsHarmless == [](C19_State) /\ [][C19_Step]_vars

C19_Witness ==
    /\ pc = "returned"
    /\ \E i \in WarnedRows \cap CleanRows : IsSuccess(i)
    /\ error_count = 0
    /\ Writes = {}
    /\ success_count >= 2

\* C20: without --manual, a downloaded briefcase file without content is
\* removed and never classified; the run then takes the 'no new records'
\* path with zero counts and no registry or failure-store call.  smartva.run
\* is called only for a downloaded file with content.
C20_EmptyDownloadSkipsClassifier ==
    /\ (manual = None /\ briefcase_file = "empty") => pc \in {"check_briefcase", "aborted"}
    /\ (manual = None /\ briefcase_file = "removed") =>
          /\ \A k \in 1..Len(calls) : calls[k].op # "smartva.run"
          /\ smartva_file = NoFile
          /\ RecordCalls = {}
          /\ success_count = 0 /\ duplicate_count = 0 /\ error_count = 0 /\ no_of_records = 0
          /\ pc \in {"counts", "returned", "exit", "scheduler", "aborted"}
          /\ pc \in {"returned", "exit", "scheduler"} =>
                log[Len(log)] = Line("No new ODK records to process", <<>>)
    /\ (manual = None /\ \E k \in 1..Len(calls) : calls[k].op = "smartva.run") =>
          briefcase_file = "content"

C20_Witness ==
    /\ pc = "returned"
    /\ manual = None
    /\ briefcase_file = "removed"
    /\ log[Len(log)].msg = "No new ODK records to process"

\* C13: in manual mode the run makes no download_briefcases call and no
\* get_timewindow call; the first call of the run is smartva.run on the
\* supplied path.
C13_ManualSkipsFetchAndWindow ==
    (manual # None /\ runs > 0) =>
        /\ \A k \in 1..Len(calls) : calls[k].op \notin {"download_briefcases", "get_timewindow"}
        /\ Len(calls) > 0 => calls[1].op = "smartva.run"
        /\ briefcase_file = None

\* Positions of _run.
RunPcs == {"fetch", "check_briefcase", "counts", "loop", "branch", "post", "returned", "raised"}

C14_State ==
    /\ instances \in {0, 1}
    /\ instances = 1 => pc \in RunPcs
    /\ (scheduler = "running" /\ pc \in RunPcs) => instances = 1

C14_Step ==
    /\ (scheduler = "running" /\ pc # "scheduler" /\ next_run_time' # next_run_time) =>
          /\ runs' = runs
          /\ skipped' = skipped + 1
          /\ pc' = pc
          /\ calls' = calls
    /\ (scheduler = "running" /\ runs' # runs) =>
          /\ pc = "scheduler"
          /\ instances = 0
          /\ instances' = 1

\* C14: under the scheduler at most one instance of the job runs at a time;
\* a due time that arrives while a run is executing (the run lasts longer
\* than the interval) starts no run and changes nothing in the running one.
C14_SingleActiveRun == [](C14_State) /\ [][C14_Step]_vars

C14_Witness ==
    /\ scheduler = "running"
    /\ pc = "post"
    /\ instances = 1
    /\ skipped >= 1
    /\ runs = 2

Downloads == {k \in 1..Len(calls) : calls[k].op = "download_briefcases"}

LastLogIs(msg) == Len(log) > 0 /\ log[Len(log)].msg = msg
Logged(msg) == \E k \in 1..Len(log) : log[k].msg = msg

C16_OriginalState ==
    interrupted => /\ LastLogIs("Aborted!")
                   /\ pc \in {"aborted", "exit"}

C16_OriginalStep ==
    interrupted => /\ calls' = calls
                   /\ runs' = runs

\* C16 as claimed: after an interrupt at any point of a run no further
\* collaborator call is made, no further run starts, and launch ends with
\* the 'Aborted!' log line.
C16_InterruptAborts == [](C16_OriginalState) /\ [][C16_OriginalStep]_vars

C16_State ==
    /\ ~interrupted => pc # "aborted"
    /\ (interrupted /\ scheduler = "off") =>
          /\ pc = "aborted"
          /\ LastLogIs("Aborted!")
    /\ (interrupted /\ scheduler # "off") =>
          /\ scheduler = "stopped"
          /\ ~Logged("Aborted!")

C16_Step ==
    /\ (~interrupted /\ interrupted') => calls' = calls
    /\ interrupted => /\ runs' = runs
                      /\ scheduler = "off" => calls' = calls

\* C16 as amended: an interrupt during a direct run (--manual or --all) ends
\* it at once: no parser, is_duplicate, post_event or write_errors call
\* follows, the failure store keeps the whole entries written before it, and
\* launch ends with the 'Aborted!' log line.  An interrupt that hits the
\* scheduler is dropped without a log line, the scheduler stops and no
\* further scheduled run starts.
C16_InterruptStops == [](C16_State) /\ [][C16_Step]_vars

C16_Witness ==
    /\ pc = "aborted"
    /\ scheduler = "off"
    /\ LastLogIs("Aborted!")
    /\ Writes # {}
    /\ index = 2
    /\ index < Len(read_csv(smartva_file))

C18_State ==
    /\ argv = <<>> =>
          /\ runs > 0 => (scheduler # "off" /\ manual = None /\ ~download_all)
          /\ scheduler # "off" => next_run_time = HOURS * (runs + skipped)
    /\ argv = <<"--manual", "exists.csv">> =>
          /\ scheduler = "off"
          /\ runs <= 1
          /\ runs = 1 => (manual = "exists.csv" /\ ~download_all)
    /\ argv = <<"--all">> =>
          /\ scheduler = "off"
          /\ runs <= 1
          /\ runs = 1 => (manual = None /\ download_all)
    /\ argv = <<"--manual", "missing.csv">> =>
          /\ scheduler = "off"
          /\ runs = 0
          /\ pc \in {"launch", "exit", "aborted"}

C18_Step ==
    runs' # runs =>
        /\ runs' = runs + 1
        /\ (argv = <<>>) = (pc = "scheduler")
        /\ argv # <<>> => pc = "dispatch"
        /\ pc = "scheduler" =>
              /\ clock' = HOURS * (runs + skipped)
              /\ runs = 0 => clock' = clock
              /\ manual' = None
              /\ ~download_all'

\* C18: without flags launch starts the scheduler, whose job runs
\* _run(False, False) at once and then at multiples of 3 hours, and launch
\* never calls _run itself; with --manual <path> or --all launch calls _run
\* once with those options and never starts the scheduler; --manual with a
\* missing path ends launch before setup and before any run.
C18_Dispatch == [](C18_State) /\ [][C18_Step]_vars

C18_Witness ==
    /\ argv = <<>>
    /\ runs = 2
    /\ skipped = 0
    /\ clock = HOURS
    /\ pc = "fetch"
====
